---- MODULE Spec2Model ----
(***************************************************************************)
(* Model of the interview practice bot of src/src/03_langgraph_bot.py:     *)
(* main(), the five graph nodes, the router, the per-channel merge of the  *)
(* graph state and the checkpoint file.                                    *)
(*                                                                         *)
(* Text is a sequence of tokens (strings); a reply of the language model   *)
(* is a sequence of lines, each a sequence of tokens.                      *)
(***************************************************************************)
EXTENDS Integers, Sequences, FiniteSets, TLC

VARIABLES
    pc,             \* position of the process: in main(), at a graph node, or exited
    state,          \* the channel values of the running graph (InterviewState)
    loaded,         \* main()'s local checkpoint: None or Some(loaded content)
    initial_state,  \* main()'s local initial_state
    checkpoint,     \* outputs/interview_checkpoint.json: None or Some(content)
    update,         \* the partial update returned by the node that ran last
    report,         \* the report of the last session, until the next one
                    \* begins: None or Some
    inflight        \* history: None or Some(state and node at the interrupt a
                    \* written checkpoint stands for)

vars == <<pc, state, loaded, initial_state, checkpoint, update, report,
          inflight>>

----------------------------------------------------------------------------
(* Bounds *)

\* largest number of usable (numbered or dashed) lines in a generation reply
MaxUsable == 6

\* largest current_index and question count given to the router on its own
MaxRouteIndex == 6
MaxRouteQuestions == 5

\* largest number of exchanges, scores and weak areas a state holds when a
\* node is applied to it on its own
MaxPrior == 3

----------------------------------------------------------------------------
(* Values *)

\* an optional value is a sequence of length 0 (None, no file) or 1
None == <<>>
Some(v) == <<v>>
EmptyDict == [k \in {} |-> TRUE]

COMPANY == <<"Anthropic">>
POSITION == <<"Senior Machine Learning Engineer">>
DIFFICULTY == <<"medium">>

NodeNames == {"generate_questions", "ask_question", "analyze_answer",
              "give_feedback", "wrap_up"}

LlmNodes == {"generate_questions", "analyze_answer", "wrap_up"}

\* the positions inside main()'s try block
InTry == NodeNames \cup {"report"}

Digits == {"0", "1", "2", "3", "4", "5", "6", "7", "8", "9"}

FallbackQuestions ==
    << <<"Tell me about a challenging technical project you've worked on.">>,
       <<"How do you approach debugging a complex system?">>,
       <<"Describe a time you had to learn a new technology quickly.">>,
       <<"How would you design a system for [relevant task]?">>,
       <<"What interests you about this role at our company?">> >>

NoAnswer == <<"(No answer provided)">>

\* questions[:5]
QuestionLimit == 5

\* the prompt of analyze_answer: "if score < 7, name ONE skill to work on"
WeakAreaScoreLimit == 7

\* analyze_answer: the default score and the clamp range
DefaultScore == 5
MinScore == 1
MaxScore == 10

\* datetime.now().isoformat(): an opaque string
Timestamp == <<"2025-01-01T10:00:00">>

----------------------------------------------------------------------------
(* Text helpers: str.strip, str.split(sep, 1)[-1], list slicing *)

RECURSIVE LStrip(_)
LStrip(s) == IF s # <<>> /\ Head(s) = " " THEN LStrip(Tail(s)) ELSE s

RECURSIVE RStrip(_)
RStrip(s) ==
    IF s # <<>> /\ s[Len(s)] = " " THEN RStrip(SubSeq(s, 1, Len(s) - 1)) ELSE s

Strip(s) == RStrip(LStrip(s))

\* position of the first token equal to sep, 0 when there is none
FirstIndex(s, sep) ==
    IF \E i \in 1..Len(s) : s[i] = sep
    THEN CHOOSE i \in 1..Len(s) :
            s[i] = sep /\ \A j \in 1..(i - 1) : s[j] # sep
    ELSE 0

\* s.split(sep, 1)[-1]
SplitOnceLast(s, sep) ==
    IF FirstIndex(s, sep) = 0 THEN s
    ELSE SubSeq(s, FirstIndex(s, sep) + 1, Len(s))

\* s.split(sep)[0]
SplitFirst(s, sep) ==
    IF FirstIndex(s, sep) = 0 THEN s
    ELSE SubSeq(s, 1, FirstIndex(s, sep) - 1)

\* s[:n]
Take(s, n) == SubSeq(s, 1, IF Len(s) < n THEN Len(s) ELSE n)

\* s.startswith(prefix)
StartsWith(s, prefix) ==
    Len(s) >= Len(prefix) /\ SubSeq(s, 1, Len(prefix)) = prefix

----------------------------------------------------------------------------
(* What the outside world can supply *)

QText(i) == "Q" \o ToString(i)

\* the i-th usable line of a generation reply: "i. Qi", "- Qi" or "i) Qi"
UsableLine(i) ==
    CASE i % 3 = 1 -> <<" ", ToString(i), ".", " ", QText(i)>>
      [] i % 3 = 2 -> <<"-", " ", QText(i)>>
      [] OTHER     -> <<ToString(i), ")", " ", QText(i), " ">>

\* a generation reply with n usable lines after a header and a blank line
GenReply(n) ==
    << <<"Here", " ", "are", " ", "the", " ", "questions", ":">>, <<>> >>
        \o [i \in 1..n |-> UsableLine(i)]

\* replies without any numbered or dashed line
UnlistedReplies ==
    { <<>>,
      << <<"*", " ", QText(1)>>, <<"*", " ", QText(2)>> >>,
      << <<"Question", " ", "1", ":", " ", QText(1)>> >> }

GenReplies == {GenReply(n) : n \in 0..MaxUsable} \cup UnlistedReplies

\* the candidate's answer: what "\n".join(lines) holds when input ends
AnswerInputs == {<<>>, <<" ", " ">>, <<" ", "I", " ", "would", " ", "profile", " ">>}

LowReply ==
    << <<"SCORE", ":", " ", "4", "/", "10">>,
       <<>>,
       <<"STRENGTHS", ":">>,
       <<" ", "WEAK_AREA", ":", " ", "technical", " ", "depth", " ">> >>

HighReply ==
    << <<"SCORE", ":", " ", "12">>,
       <<"WEAK_AREA", ":", " ", "None">> >>

GarbageReply == << <<"I", " ", "cannot", " ", "help", ".">> >>

AnalysisReplies == {LowReply, HighReply, GarbageReply}

\* console replies after .strip().lower()
ContinueInputs == {<<"yes">>, <<"y">>, <<>>, <<"no">>}
ResumeInputs == {<<"yes">>, <<"y">>, <<>>, <<"no">>}

----------------------------------------------------------------------------
(* The graph state and its channels *)

FreshState ==
    [company             |-> COMPANY,
     position            |-> POSITION,
     difficulty          |-> DIFFICULTY,
     questions           |-> <<>>,
     current_index       |-> 0,
     exchanges           |-> <<>>,
     scores              |-> <<>>,
     weak_areas          |-> <<>>,
     user_wants_continue |-> TRUE,
     session_complete    |-> FALSE]

\* the channels declared with a reducer (Annotated[..., operator.add])
AppendChannels == {"exchanges"}

MergeOverwriteAll(s, u) ==
    [k \in DOMAIN s |-> IF k \in DOMAIN u THEN u[k] ELSE s[k]]

MergeAppendAll(s, u) ==
    [k \in DOMAIN s |->
        IF k \in DOMAIN u
        THEN IF k \in {"exchanges", "scores", "weak_areas"}
             THEN s[k] \o u[k] ELSE u[k]
        ELSE s[k]]

\* the engine applies a node's partial update channel by channel
Merge(s, u) ==
    [k \in DOMAIN s |->
        IF k \in DOMAIN u
        THEN IF k \in AppendChannels THEN s[k] \o u[k] ELSE u[k]
        ELSE s[k]]

\* app.invoke(input): the input is written to channels that start empty
InvokeInput(input) ==
    [k \in DOMAIN input |->
        IF k \in AppendChannels THEN <<>> \o input[k] ELSE input[k]]

----------------------------------------------------------------------------
(* NODE 1: generate_questions *)

\* the loop body for one line of the reply: <<>> or <<question>>
ParseQuestionLine(raw) ==
    LET line == Strip(raw) IN
    IF line # <<>> /\ (Head(line) \in Digits \/ Head(line) = "-")
    THEN IF Head(line) \in Digits
         THEN << Strip(SplitOnceLast(Strip(SplitOnceLast(line, ".")), ")")) >>
         ELSE << line >>
    ELSE <<>>

RECURSIVE ParseQuestions(_)
ParseQuestions(lines) ==
    IF lines = <<>> THEN <<>>
    ELSE ParseQuestionLine(Head(lines)) \o ParseQuestions(Tail(lines))

QuestionsOrFallback_none(content) == ParseQuestions(content)

QuestionsOrFallback_short(content) ==
    IF ParseQuestions(content) = <<>> THEN Take(FallbackQuestions, 3)
    ELSE ParseQuestions(content)

\* "if not questions:" substitutes the fixed list
QuestionsOrFallback(content) ==
    IF ParseQuestions(content) = <<>> THEN FallbackQuestions
    ELSE ParseQuestions(content)

generate_questions_unlimited(s, content) ==
    [questions     |-> QuestionsOrFallback(content),
     current_index |-> 0,
     exchanges     |-> <<>>,
     scores        |-> <<>>,
     weak_areas    |-> <<>>]

generate_questions(s, content) ==
    [questions     |-> Take(QuestionsOrFallback(content), QuestionLimit),
     current_index |-> 0,
     exchanges     |-> <<>>,
     scores        |-> <<>>,
     weak_areas    |-> <<>>]

----------------------------------------------------------------------------
(* NODE 2: ask_question *)

ask_question_blank(s, answer, now) ==
    [exchanges |->
       << [question_num |-> s.current_index + 1,
           question     |-> s.questions[s.current_index + 1],
           answer       |-> Strip(answer),
           timestamp    |-> now] >>]

ask_question_previous(s, answer, now) ==
    [exchanges |->
       << [question_num |-> s.current_index,
           question     |-> s.questions[s.current_index + 1],
           answer       |-> IF Strip(answer) = <<>> THEN NoAnswer
                            ELSE Strip(answer),
           timestamp    |-> now] >>]

ask_question(s, answer, now) ==
    LET idx == s.current_index
        question == s.questions[idx + 1]
        user_answer == IF Strip(answer) = <<>> THEN NoAnswer ELSE Strip(answer)
    IN [exchanges |->
          << [question_num |-> idx + 1,
              question     |-> question,
              answer       |-> user_answer,
              timestamp    |-> now] >>]

----------------------------------------------------------------------------
(* NODE 3: analyze_answer *)

\* int(text): the texts that parse, with their values
IntValue ==
    [tok \in {"-3", "0", "4", "7", "10", "12"} |->
        CASE tok = "-3" -> -3
          [] tok = "0"  -> 0
          [] tok = "4"  -> 4
          [] tok = "7"  -> 7
          [] tok = "10" -> 10
          [] OTHER      -> 12]

IsInt(text) == Len(text) = 1 /\ text[1] \in DOMAIN IntValue

Max(a, b) == IF a > b THEN a ELSE b
Min(a, b) == IF a < b THEN a ELSE b

ParseScoreLine_unclamped(line) ==
    LET score_text == Strip(SplitFirst(SplitOnceLast(line, ":"), ":"))
        number     == Strip(SplitFirst(score_text, "/"))
    IN IF IsInt(number) THEN IntValue[number[1]] ELSE DefaultScore

\* the try/except around the score line
ParseScoreLine(line) ==
    LET score_text == Strip(SplitFirst(SplitOnceLast(line, ":"), ":"))
        number     == Strip(SplitFirst(score_text, "/"))
    IN IF IsInt(number)
       THEN Max(MinScore, Min(MaxScore, IntValue[number[1]]))
       ELSE DefaultScore

\* str.lower() of one token
LowerToken(tok) ==
    CASE tok = "None" -> "none"
      [] tok = "NONE" -> "none"
      [] tok = "N"    -> "n"
      [] tok = "A"    -> "a"
      [] OTHER        -> tok

Lower(text) == [i \in 1..Len(text) |-> LowerToken(text[i])]

NoIssue == { <<"none">>, <<"n", "/", "a">>, <<"-">> }

\* the for loop over the lines of the reply; acc is <<score, weak_area>>
RECURSIVE ParseFeedback(_, _)
ParseFeedback(lines, acc) ==
    IF lines = <<>> THEN acc
    ELSE LET line == Strip(Head(lines))
             next ==
                IF StartsWith(line, <<"SCORE", ":">>)
                THEN <<ParseScoreLine(line), acc[2]>>
                ELSE IF StartsWith(line, <<"WEAK_AREA", ":">>)
                THEN LET area == Strip(SplitOnceLast(line, ":"))
                     IN IF Lower(area) \notin NoIssue
                        THEN <<acc[1], Some(area)>> ELSE acc
                ELSE acc
         IN ParseFeedback(Tail(lines), next)

ParsedScore_unset(content) == ParseFeedback(content, <<MinScore, None>>)[1]

\* score = 5 and weak_area = None before the loop
ParsedScore(content) == ParseFeedback(content, <<DefaultScore, None>>)[1]
ParsedWeakArea(content) == ParseFeedback(content, <<DefaultScore, None>>)[2]

\* "if weak_area:" is false for None and for the empty string
Truthy(weak_area) == weak_area # None /\ weak_area[1] # <<>>

StoreFeedback_default(s, content) ==
    LET n    == Len(s.exchanges)
        last == s.exchanges[n]
        keys == DOMAIN last \cup {"score", "feedback"}
    IN [s EXCEPT !.exchanges[n] =
          [k \in keys |->
             CASE k = "score"    -> DefaultScore
               [] k = "feedback" -> content
               [] OTHER          -> last[k]]]

\* state["exchanges"][-1]["score"] = score; [...]["feedback"] = content
\* written in place into the dict held by the exchanges channel
StoreFeedback(s, content) ==
    LET n    == Len(s.exchanges)
        last == s.exchanges[n]
        keys == DOMAIN last \cup {"score", "feedback"}
    IN [s EXCEPT !.exchanges[n] =
          [k \in keys |->
             CASE k = "score"    -> ParsedScore(content)
               [] k = "feedback" -> content
               [] OTHER          -> last[k]]]

analyze_answer_unscored(s, content) ==
    IF Truthy(ParsedWeakArea(content))
    THEN [scores     |-> s.scores,
          weak_areas |-> s.weak_areas \o <<ParsedWeakArea(content)[1]>>]
    ELSE [scores |-> s.scores]

analyze_answer_forgets(s, content) ==
    IF Truthy(ParsedWeakArea(content))
    THEN [scores     |-> <<ParsedScore(content)>>,
          weak_areas |-> <<ParsedWeakArea(content)[1]>>]
    ELSE [scores |-> <<ParsedScore(content)>>]

\* the update returned by analyze_answer
analyze_answer(s, content) ==
    IF Truthy(ParsedWeakArea(content))
    THEN [scores     |-> s.scores \o <<ParsedScore(content)>>,
          weak_areas |-> s.weak_areas \o <<ParsedWeakArea(content)[1]>>]
    ELSE [scores |-> s.scores \o <<ParsedScore(content)>>]

----------------------------------------------------------------------------
(* NODE 4: give_feedback *)

give_feedback_skips(s, continue_input) ==
    [current_index       |-> s.current_index + 2,
     user_wants_continue |->
        IF Len(s.questions) - (s.current_index + 1) > 0
        THEN continue_input \in {<<"yes">>, <<"y">>, <<>>}
        ELSE FALSE]

give_feedback_repeat(s, continue_input) ==
    [current_index       |-> s.current_index,
     user_wants_continue |->
        IF Len(s.questions) - (s.current_index + 1) > 0
        THEN continue_input \in {<<"yes">>, <<"y">>, <<>>}
        ELSE FALSE]

give_feedback_unforced(s, continue_input) ==
    [current_index       |-> s.current_index + 1,
     user_wants_continue |-> continue_input \in {<<"yes">>, <<"y">>, <<>>}]

give_feedback(s, continue_input) ==
    LET new_index == s.current_index + 1
        remaining == Len(s.questions) - new_index
    IN [current_index       |-> new_index,
        user_wants_continue |->
           IF remaining > 0
           THEN continue_input \in {<<"yes">>, <<"y">>, <<>>}
           ELSE FALSE]

\* the continuation prompt is shown only when questions remain
PromptsForContinue(s) == Len(s.questions) - (s.current_index + 1) > 0

----------------------------------------------------------------------------
(* NODE 5: wrap_up_session *)

wrap_up_session_open(s) == [session_complete |-> FALSE]

wrap_up_session(s) == [session_complete |-> TRUE]

----------------------------------------------------------------------------
(* THE ROUTER *)

\* state.get("user_wants_continue", True)
GetWantsContinue(s) ==
    IF "user_wants_continue" \in DOMAIN s THEN s.user_wants_continue ELSE TRUE

should_continue_early(s) ==
    IF ~GetWantsContinue(s) THEN "wrap_up"
    ELSE IF s.current_index + 1 >= Len(s.questions) THEN "wrap_up"
    ELSE "ask_question"

should_continue_strict(s) ==
    IF ~GetWantsContinue(s) THEN "wrap_up"
    ELSE IF s.current_index > Len(s.questions) THEN "wrap_up"
    ELSE "ask_question"

should_continue(s) ==
    IF ~GetWantsContinue(s) THEN "wrap_up"
    ELSE IF s.current_index >= Len(s.questions) THEN "wrap_up"
    ELSE "ask_question"

----------------------------------------------------------------------------
(* CHECKPOINT UTILITIES *)

\* JSON values: a tag and a payload
JStr(text)   == [t |-> "str",  v |-> text]
JNum(n)      == [t |-> "num",  v |-> n]
JBool(b)     == [t |-> "bool", v |-> b]
JArr(items)  == [t |-> "arr",  v |-> items]
JObj(fields) == [t |-> "obj",  v |-> fields]

\* a file that is not a JSON document (empty or cut short)
CorruptFile == [t |-> "corrupt", v |-> <<>>]

JsonDumpExchangeAsked(e) ==
    JObj([k \in DOMAIN e \ {"score", "feedback"} |->
            IF k = "question_num" THEN JNum(e[k]) ELSE JStr(e[k])])

\* json.dump of one exchange dict: ints as numbers, everything else is a str
JsonDumpExchange(e) ==
    JObj([k \in DOMAIN e |->
            IF k \in {"question_num", "score"} THEN JNum(e[k]) ELSE JStr(e[k])])

\* json.dump(save_state, f, indent=2, default=str): every value of the state
\* is a str, int, bool, list or dict, so default=str is never called
JsonDump(s) ==
    JObj([k \in DOMAIN s |->
            CASE k \in {"company", "position", "difficulty"} -> JStr(s[k])
              [] k \in {"questions", "weak_areas"} ->
                    JArr([i \in 1..Len(s[k]) |-> JStr(s[k][i])])
              [] k = "scores" ->
                    JArr([i \in 1..Len(s[k]) |-> JNum(s[k][i])])
              [] k = "exchanges" ->
                    JArr([i \in 1..Len(s[k]) |-> JsonDumpExchange(s[k][i])])
              [] k = "current_index" -> JNum(s[k])
              [] OTHER -> JBool(s[k])])

\* json.load: objects become dicts, arrays lists, the rest plain values
RECURSIVE JsonLoad(_)
JsonLoad(j) ==
    CASE j.t = "arr" -> [i \in 1..Len(j.v) |-> JsonLoad(j.v[i])]
      [] j.t = "obj" -> [k \in DOMAIN j.v |-> JsonLoad(j.v[k])]
      [] OTHER       -> j.v

\* the file content written by save_checkpoint
save_checkpoint(s) == JsonDump([k \in DOMAIN s |-> s[k]])

\* json.load raises on a file that is not JSON
LoadRaises == IF checkpoint = None THEN FALSE ELSE checkpoint[1].t = "corrupt"

\* None when the file does not exist, else the parsed JSON
load_checkpoint ==
    IF checkpoint = None THEN None ELSE Some(JsonLoad(checkpoint[1]))

----------------------------------------------------------------------------
(* MAIN EXECUTION *)

Init ==
    /\ pc = "start"
    /\ state = EmptyDict
    /\ loaded = None
    /\ initial_state = EmptyDict
    /\ checkpoint = None
    /\ update = EmptyDict
    /\ report = None
    /\ inflight = None

\* the process ends: its memory is gone, the checkpoint file stays
Exit ==
    /\ pc' = "exited"
    /\ state' = EmptyDict
    /\ loaded' = None
    /\ initial_state' = EmptyDict
    /\ update' = EmptyDict

\* "if not checkpoint": None, or an empty JSON object
Falsy(cp) == IF cp = None THEN TRUE ELSE DOMAIN cp[1] = {}

\* "if checkpoint and not checkpoint.get('session_complete', False)"
OffersResume(cp) ==
    IF Falsy(cp) THEN FALSE
    ELSE ~(IF "session_complete" \in DOMAIN cp[1]
           THEN cp[1].session_complete ELSE FALSE)

\* main() up to the resume prompt: load the checkpoint and branch; the
\* error of json.load is not caught; a checkpoint of a completed session
\* leaves initial_state unbound and app.invoke(initial_state) raises
Start ==
    /\ pc = "start"
    /\ IF LoadRaises THEN Exit
       ELSE IF OffersResume(load_checkpoint)
       THEN /\ pc' = "resume_prompt"
            /\ loaded' = load_checkpoint
            /\ UNCHANGED <<state, initial_state, update>>
       ELSE IF Falsy(load_checkpoint)
       THEN /\ pc' = "fresh_prompt"
            /\ loaded' = load_checkpoint
            /\ UNCHANGED <<state, initial_state, update>>
       ELSE Exit
    /\ UNCHANGED <<checkpoint, report, inflight>>

\* "Resume previous session? (yes/no)": yes runs the graph on the loaded
\* checkpoint, anything else sets the local checkpoint to None
ResumePrompt(resume) ==
    /\ pc = "resume_prompt"
    /\ IF resume \in {<<"yes">>, <<"y">>}
       THEN /\ initial_state' = loaded[1]
            /\ state' = InvokeInput(initial_state')
            /\ pc' = "generate_questions"
            /\ report' = None
            /\ UNCHANGED <<loaded, inflight>>
       ELSE /\ loaded' = None
            /\ pc' = "fresh_prompt"
            /\ inflight' = None
            /\ UNCHANGED <<state, initial_state, report>>
    /\ UNCHANGED <<checkpoint, update>>

\* "Press Enter to start": build the fresh initial_state and run the graph
FreshStart ==
    /\ pc = "fresh_prompt"
    /\ Falsy(loaded)
    /\ initial_state' = FreshState
    /\ state' = InvokeInput(initial_state')
    /\ pc' = "generate_questions"
    /\ report' = None
    /\ UNCHANGED <<loaded, checkpoint, update, inflight>>

GenerateQuestions(content) ==
    /\ pc = "generate_questions"
    /\ update' = generate_questions(state, content)
    /\ state' = Merge(state, update')
    /\ pc' = "ask_question"
    /\ inflight' = None
    /\ UNCHANGED <<loaded, initial_state, checkpoint, report>>

AskQuestion(answer) ==
    /\ pc = "ask_question"
    /\ update' = ask_question(state, answer, Timestamp)
    /\ state' = Merge(state, update')
    /\ pc' = "analyze_answer"
    /\ UNCHANGED <<loaded, initial_state, checkpoint, report, inflight>>

AnalyzeAnswer(content) ==
    /\ pc = "analyze_answer"
    /\ update' = analyze_answer(state, content)
    /\ state' = Merge(StoreFeedback(state, content), update')
    /\ pc' = "give_feedback"
    /\ UNCHANGED <<loaded, initial_state, checkpoint, report, inflight>>

\* the conditional edge is evaluated on the state after the node's update
GiveFeedback(continue_input) ==
    /\ pc = "give_feedback"
    /\ update' = give_feedback(state, continue_input)
    /\ state' = Merge(state, update')
    /\ pc' = should_continue(state')
    /\ UNCHANGED <<loaded, initial_state, checkpoint, report, inflight>>

\* wrap_up -> END: app.invoke returns the final state
WrapUp ==
    /\ pc = "wrap_up"
    /\ update' = wrap_up_session(state)
    /\ state' = Merge(state, update')
    /\ pc' = "report"
    /\ UNCHANGED <<loaded, initial_state, checkpoint, report, inflight>>

Report_keeps ==
    /\ pc = "report"
    /\ IF Len(state.scores) = 0
       THEN UNCHANGED <<checkpoint, report>>
       ELSE /\ report' = Some([questions_completed |-> Len(state.scores)])
            /\ UNCHANGED checkpoint
    /\ Exit
    /\ UNCHANGED inflight

\* save_session_report(result), then unlink the checkpoint; the report's
\* average divides by len(scores) and raises before the unlink when it is 0
Report ==
    /\ pc = "report"
    /\ IF Len(state.scores) = 0
       THEN UNCHANGED <<checkpoint, report>>
       ELSE /\ report' = Some([questions_completed |-> Len(state.scores)])
            /\ checkpoint' = None
    /\ Exit
    /\ UNCHANGED inflight

\* llm.invoke raises: only KeyboardInterrupt is caught, the process ends
LlmFailure ==
    /\ pc \in LlmNodes
    /\ Exit
    /\ UNCHANGED <<checkpoint, report, inflight>>

\* Ctrl-C while the try block runs: the node that is running is abandoned
KeyboardInterrupt ==
    /\ pc \in InTry
    /\ inflight' = Some([state |-> state, node |-> pc])
    /\ pc' = "interrupted"
    /\ UNCHANGED <<state, loaded, initial_state, checkpoint, update, report>>

HandleInterrupt_silent ==
    /\ pc = "interrupted"
    /\ Exit
    /\ UNCHANGED <<checkpoint, report, inflight>>

\* except KeyboardInterrupt: save_checkpoint(initial_state), then main ends
HandleInterrupt ==
    /\ pc = "interrupted"
    /\ checkpoint' = Some(save_checkpoint(initial_state))
    /\ Exit
    /\ UNCHANGED <<report, inflight>>

\* a second Ctrl-C (or a kill) while save_checkpoint writes: open(.., 'w')
\* has truncated the file and json.dump has not finished
TornWrite ==
    /\ pc = "interrupted"
    /\ checkpoint' = Some(CorruptFile)
    /\ Exit
    /\ inflight' = None
    /\ UNCHANGED report

\* the user runs the program again
RunAgain ==
    /\ pc = "exited"
    /\ pc' = "start"
    /\ UNCHANGED <<state, loaded, initial_state, checkpoint, update, report,
                   inflight>>

Next ==
    \/ Start
    \/ \E resume \in ResumeInputs : ResumePrompt(resume)
    \/ FreshStart
    \/ \E content \in GenReplies : GenerateQuestions(content)
    \/ \E answer \in AnswerInputs : AskQuestion(answer)
    \/ \E content \in AnalysisReplies : AnalyzeAnswer(content)
    \/ \E continue_input \in ContinueInputs : GiveFeedback(continue_input)
    \/ WrapUp
    \/ Report
    \/ LlmFailure
    \/ KeyboardInterrupt
    \/ HandleInterrupt
    \/ TornWrite
    \/ RunAgain

Spec == Init /\ [][Next]_vars

----------------------------------------------------------------------------
(* The router on its own: should_continue applied to arbitrary states *)

RouteQuestions(n) == [i \in 1..n |-> <<QText(i)>>]

RouteStates ==
    LET full == { [FreshState EXCEPT !.questions = RouteQuestions(n),
                                     !.current_index = idx,
                                     !.user_wants_continue = wants] :
                    n \in 0..MaxRouteQuestions,
                    idx \in 0..MaxRouteIndex,
                    wants \in BOOLEAN }
    IN full \cup { [k \in DOMAIN s \ {"user_wants_continue"} |-> s[k]] :
                    s \in full }

RouteInit ==
    /\ pc = "router"
    /\ state \in RouteStates
    /\ loaded = None
    /\ initial_state = EmptyDict
    /\ checkpoint = None
    /\ update = EmptyDict
    /\ report = None
    /\ inflight = None

RouteApply ==
    /\ pc = "router"
    /\ pc' = should_continue(state)
    /\ UNCHANGED <<state, loaded, initial_state, checkpoint, update, report,
                   inflight>>

RouteNext == RouteApply

SpecRoute == RouteInit /\ [][RouteNext]_vars

----------------------------------------------------------------------------
(* Properties *)

\* positions at which the graph state exists
InSession == NodeNames \cup {"report", "interrupted"}

\* a node ran and the engine applied its update
NodeStep == pc \in NodeNames /\ pc' \in NodeNames \cup {"report"}

\* the user accepted the resume of the session interrupted last
ResumeStep == pc = "resume_prompt" /\ pc' \in NodeNames /\ inflight # None

AfterGeneration ==
    pc \in {"ask_question", "analyze_answer", "give_feedback", "wrap_up",
            "report"}

\* C1: when an interrupt is handled, the checkpoint that is written holds
\* the in-flight state of the session (as updated by every completed step)
C1_CheckpointHoldsInflightState ==
    [][pc = "interrupted" /\ checkpoint' # Some(CorruptFile)
          => checkpoint' = Some(save_checkpoint(state))]_vars

\* C2: an accepted resume does not restart at generate_questions once that
\* node had completed, and an interrupt that hit analyze_answer resumes at
\* analyze_answer
C2_ResumeAtNextStep ==
    [][ResumeStep =>
          /\ (inflight[1].node # "generate_questions"
                 => pc' # "generate_questions")
          /\ (inflight[1].node = "analyze_answer"
                 => pc' = "analyze_answer")]_vars

\* C3 as stated: the engine concatenates the update's exchanges, scores and
\* weak_areas onto the old value, replaces every other field of the update,
\* and leaves a field absent from the update unchanged
C3_EngineAppendsThreeFields ==
    [][NodeStep =>
          \A k \in DOMAIN state :
             state'[k] =
                IF k \in DOMAIN update'
                THEN IF k \in {"exchanges", "scores", "weak_areas"}
                     THEN state[k] \o update'[k] ELSE update'[k]
                ELSE state[k]]_vars

\* the exchanges after analyze_answer wrote score and feedback in place:
\* same length, earlier entries untouched, the last one keeps its fields
\* and gains score and feedback
FeedbackStored(old, new) ==
    /\ Len(new) = Len(old)
    /\ \A i \in 1..(Len(old) - 1) : new[i] = old[i]
    /\ DOMAIN new[Len(old)] = DOMAIN old[Len(old)] \cup {"score", "feedback"}
    /\ \A k \in DOMAIN old[Len(old)] \ {"score", "feedback"} :
          new[Len(old)][k] = old[Len(old)][k]

\* C3 amended: the engine concatenates only exchanges; every other field
\* of the update, scores and weak_areas included, replaces the old value;
\* a field absent from the update keeps its value, except that
\* analyze_answer writes score and feedback into the last exchange in place
C3_MergePolicy ==
    [][NodeStep =>
          /\ DOMAIN state' = DOMAIN state
          /\ \A k \in DOMAIN state :
                IF k \in DOMAIN update'
                THEN state'[k] = IF k = "exchanges"
                                 THEN state[k] \o update'[k]
                                 ELSE update'[k]
                ELSE IF k = "exchanges" /\ pc = "analyze_answer"
                     THEN FeedbackStored(state[k], state'[k])
                     ELSE state'[k] = state[k]]_vars

\* C3 witness: a second score was recorded; the update carried the whole
\* list and replaced the channel
C3_Witness ==
    /\ pc = "give_feedback"
    /\ "scores" \in DOMAIN update
    /\ Len(update.scores) = 2
    /\ state.scores = update.scores
    /\ Len(state.exchanges) = 2

\* C4: the router returns wrap_up when user_wants_continue is false or
\* current_index >= len(questions), ask_question otherwise, and changes
\* no state
C4_RouterContract ==
    [][pc = "router" =>
          /\ pc' = IF \/ ("user_wants_continue" \in DOMAIN state
                            /\ ~state.user_wants_continue)
                      \/ state.current_index >= Len(state.questions)
                   THEN "wrap_up" ELSE "ask_question"
          /\ state' = state]_vars

\* C4 witness: the router sent a state with questions left to wrap_up
\* because the user declined
C4_Witness ==
    /\ pc = "wrap_up"
    /\ "user_wants_continue" \in DOMAIN state
    /\ ~state.user_wants_continue
    /\ state.current_index < Len(state.questions)

SeqLengths(s) == <<Len(s.exchanges), Len(s.scores), Len(s.weak_areas)>>

NoShorter(old, new) == \A i \in 1..3 : SeqLengths(new)[i] >= SeqLengths(old)[i]

\* C5: the lengths of exchanges, scores and weak_areas never decrease
\* across the steps of a session, a resumed session included
C5_SequencesOnlyGrow ==
    [][/\ NodeStep => NoShorter(state, state')
       /\ ResumeStep => NoShorter(inflight[1].state, state')]_vars

\* C6: current_index never decreases across the steps of a session, a
\* resumed session included
C6_IndexNeverDecreases ==
    [][/\ NodeStep => state'.current_index >= state.current_index
       /\ ResumeStep =>
             state'.current_index >= inflight[1].state.current_index]_vars

\* C7: 0 <= current_index <= len(questions) in every state of a session
C7_IndexInRange ==
    pc \in InSession =>
       /\ 0 <= state.current_index
       /\ state.current_index <= Len(state.questions)

\* C7 witness: the index reached the end of a full question list
C7_Witness ==
    /\ pc = "wrap_up"
    /\ state.current_index = Len(state.questions)
    /\ Len(state.questions) = QuestionLimit

\* C8: after every completed analyze_answer len(scores) = len(exchanges)
C8_ScoresMatchExchanges ==
    pc = "give_feedback" => Len(state.scores) = Len(state.exchanges)

\* C8 witness: the second analysis of a session resumed from a checkpoint
C8_Witness ==
    /\ pc = "give_feedback"
    /\ loaded # None
    /\ Len(state.scores) = 2

\* C9 as stated: once the analysis has completed for the current question
\* len(exchanges) = current_index
C9_ExchangesEqualIndexAfterAnalysis ==
    pc = "give_feedback" => Len(state.exchanges) = state.current_index

\* C9 amended: after ask_question and after analyze_answer the current
\* question has its exchange, len(exchanges) = current_index + 1; once
\* give_feedback has advanced the index len(exchanges) = current_index
C9_ExchangesPerAskedQuestion ==
    /\ pc \in {"analyze_answer", "give_feedback"} =>
          Len(state.exchanges) = state.current_index + 1
    /\ pc \in {"ask_question", "wrap_up", "report"} =>
          Len(state.exchanges) = state.current_index

\* C9 witness: three questions asked, analyzed and fed back
C9_Witness ==
    /\ pc = "ask_question"
    /\ state.current_index = 3
    /\ Len(state.exchanges) = 3

\* C10 as stated: after generate_questions there are exactly 5 questions
C10_ExactlyFiveQuestions ==
    AfterGeneration => Len(state.questions) = QuestionLimit

\* C10 amended: after generate_questions there are between 1 and 5
\* questions; a reply with fewer usable lines is not padded
C10_OneToFiveQuestions ==
    AfterGeneration =>
       /\ Len(state.questions) >= 1
       /\ Len(state.questions) <= QuestionLimit

\* C10 witness: a reply with three usable lines gave three questions
C10_Witness ==
    /\ pc = "ask_question"
    /\ Len(state.questions) = 3
    /\ state.questions # Take(FallbackQuestions, 3)

----------------------------------------------------------------------------
(* generate_questions on its own: the node and the engine's merge applied
   to states that already hold exchanges, scores and weak areas *)

PriorExchange(i) ==
    [question_num |-> i,
     question     |-> <<QText(i)>>,
     answer       |-> NoAnswer,
     timestamp    |-> Timestamp,
     score        |-> 4,
     feedback     |-> LowReply]

PriorStates ==
    { [FreshState EXCEPT
          !.questions           = RouteQuestions(MaxPrior),
          !.current_index       = n,
          !.exchanges           = [i \in 1..n |-> PriorExchange(i)],
          !.scores              = [i \in 1..m |-> 4],
          !.weak_areas          = [i \in 1..w |-> <<"technical", " ", "depth">>],
          !.user_wants_continue = wants] :
        n \in 0..MaxPrior, m \in 0..MaxPrior, w \in 0..MaxPrior,
        wants \in BOOLEAN }

GenerateInit ==
    /\ pc = "generate_questions"
    /\ state \in PriorStates
    /\ loaded = None
    /\ initial_state = EmptyDict
    /\ checkpoint = None
    /\ update = EmptyDict
    /\ report = None
    /\ inflight = None

GenerateNext == \E content \in GenReplies : GenerateQuestions(content)

SpecGenerate == GenerateInit /\ [][GenerateNext]_vars

C12_LlmFailureTolerated ==
    [][(pc' # "interrupted" /\ pc \in {"generate_questions", "analyze_answer"})
          => pc' = (IF pc = "generate_questions"
                    THEN "ask_question" ELSE "give_feedback")]_vars


IsPrefix(a, b) == Len(a) <= Len(b) /\ \A i \in 1..Len(a) : b[i] = a[i]

\* everything the state cp held is still present in the state s
Held(cp, s) ==
    /\ s.current_index = cp.current_index
    /\ IsPrefix(cp.questions, s.questions)
    /\ IsPrefix(cp.exchanges, s.exchanges)
    /\ IsPrefix(cp.scores, s.scores)
    /\ IsPrefix(cp.weak_areas, s.weak_areas)

\* C14: accepting the resume runs the graph on the loaded checkpoint, and
\* after the first step that follows the resume every exchange, score, weak
\* area, question and the current_index of the checkpointed session (the
\* content of the file, and the session the file was written for) are
\* still present in the session state
C14_ResumeContinuesCheckpointedState ==
    [][/\ (pc = "resume_prompt" /\ pc' = "generate_questions")
             => state' = loaded[1]
       /\ (pc = "generate_questions" /\ pc' = "ask_question" /\ loaded # None)
             => /\ Held(loaded[1], state')
                /\ inflight # None => Held(inflight[1].state, state')]_vars

\* C15: declining the resume leaves no checkpoint of the earlier session in
\* storage, and the session that follows starts from the fresh initial state
C15_DeclineDiscardsCheckpoint ==
    [][/\ (pc = "resume_prompt" /\ pc' = "fresh_prompt") => checkpoint' = None
       /\ (pc = "fresh_prompt" /\ pc' = "generate_questions")
             => state' = FreshState]_vars

\* C16: a checkpoint is written only by the handling of an interrupt, once
\* for each interrupt; no step of a session writes one and a session that
\* runs to its report writes none
C16_CheckpointOnlyOnInterrupt ==
    [][/\ pc # "interrupted"
             => (checkpoint' = checkpoint \/ (pc = "report" /\ checkpoint' = None))
       /\ pc = "interrupted"
             => /\ pc' = "exited"
                /\ checkpoint' \in {Some(save_checkpoint(initial_state)),
                                    Some(CorruptFile)}]_vars

C16_Witness ==
    /\ pc = "exited"
    /\ checkpoint = Some(save_checkpoint(FreshState))
    /\ inflight # None
    /\ inflight[1].node = "give_feedback"
    /\ Len(inflight[1].state.scores) = 2

C18_CorruptCheckpointIgnored ==
    [][(pc = "start" /\ LoadRaises) => pc' = "fresh_prompt"]_vars


-----------------------------------------------------------------------------
(* The parsing of the analysis reply, on a session of MaxParseQuestions
   questions whose replies are drawn from ParseReplies *)

MaxParseQuestions == 2

\* the text after "SCORE:" in the replies that have a score line
ScoreTexts ==
    { <<" ", "-3">>, <<" ", "0">>, <<" ", "7", " ">>, <<" ", "10", "/", "10">>,
      <<" ", "12">>, <<" ", "seven">>, <<>>, <<" ", "7.5">>,
      <<" ", "7", " ", "out", " ", "of", " ", "10">> }

\* the text after "WEAK_AREA:" in the replies that have a weak-area line
WeakAreaTexts ==
    { <<" ", "None">>, <<" ", "N", "/", "A">>, <<" ", "-">>, <<>>,
      <<" ", "system", " ", "design">> }

ParseReplies ==
    AnalysisReplies
    \cup { << <<"SCORE", ":">> \o t, <<"STRENGTHS", ":">> >> : t \in ScoreTexts }
    \cup { << <<"SCORE", ":", " ", "7">>, <<"WEAK_AREA", ":">> \o t >> :
              t \in WeakAreaTexts }
    \cup { << <<"SCORE", ":", " ", "7">>, <<"SCORE", ":", " ", "seven">> >>,
           << <<"Score", ":", " ", "7">> >> }

\* the session right after generate_questions returned MaxParseQuestions
\* questions
ParseInit ==
    /\ pc = "ask_question"
    /\ state = Merge(InvokeInput(FreshState),
                     generate_questions(InvokeInput(FreshState),
                                        GenReply(MaxParseQuestions)))
    /\ loaded = None
    /\ initial_state = FreshState
    /\ checkpoint = None
    /\ update = EmptyDict
    /\ report = None
    /\ inflight = None

ParseNext ==
    \/ \E answer \in AnswerInputs : AskQuestion(answer)
    \/ \E content \in ParseReplies : AnalyzeAnswer(content)
    \/ \E continue_input \in ContinueInputs : GiveFeedback(continue_input)

SpecParse == ParseInit /\ [][ParseNext]_vars

\* the stripped lines of a reply that start with the marker
MarkedLines(content, marker) ==
    LET stripped == [i \in 1..Len(content) |-> Strip(content[i])]
        Marked(line) == StartsWith(line, marker)
    IN SelectSeq(stripped, Marked)

\* the text of the number on the last score line: between the first and the
\* second colon, before any slash
ScoreNumber(content) ==
    LET lines == MarkedLines(content, <<"SCORE", ":">>)
        line  == lines[Len(lines)]
    IN IF lines = <<>> THEN <<>>
       ELSE Strip(SplitFirst(Strip(SplitFirst(SplitOnceLast(line, ":"), ":")),
                             "/"))

HasScoreLine(content) == MarkedLines(content, <<"SCORE", ":">>) # <<>>

\* the exchange analysed last
LastExchange(s) == s.exchanges[Len(s.exchanges)]

\* C19: every element of scores and every score attached to an exchange is
\* an integer from 1 to 10; a number on the score line below 1 gives 1,
\* one above 10 gives 10, one in the range gives itself
C19_ScoresInRange ==
    /\ \A i \in 1..Len(state.scores) : state.scores[i] \in MinScore..MaxScore
    /\ \A i \in 1..Len(state.exchanges) :
          "score" \in DOMAIN state.exchanges[i]
             => state.exchanges[i].score \in MinScore..MaxScore
    /\ (/\ pc = "give_feedback"
        /\ HasScoreLine(LastExchange(state).feedback)
        /\ IsInt(ScoreNumber(LastExchange(state).feedback)))
          => LET n == IntValue[ScoreNumber(LastExchange(state).feedback)[1]]
                 clamped == IF n < MinScore THEN MinScore
                            ELSE IF n > MaxScore THEN MaxScore ELSE n
             IN /\ LastExchange(state).score = clamped
                /\ state.scores[Len(state.scores)] = clamped

C19_Witness ==
    /\ pc = "give_feedback"
    /\ Len(state.scores) = 2
    /\ ScoreNumber(state.exchanges[1].feedback) = <<"-3">>
    /\ ScoreNumber(state.exchanges[2].feedback) = <<"12">>
    /\ state.scores = <<MinScore, MaxScore>>

\* C20: when the reply has no line that starts with the score marker, or
\* the number on its score line is not an integer, the score is exactly 5
\* and the step completes; when the reply has no weak-area line the update
\* carries no weak_areas and the list is left as it was
C20_ParseFailureDefaults ==
    [][(pc = "analyze_answer" /\ pc' = "give_feedback") =>
          LET content == LastExchange(state').feedback
          IN /\ (IF HasScoreLine(content)
                 THEN ~IsInt(ScoreNumber(content)) ELSE TRUE)
                   => /\ LastExchange(state').score = DefaultScore
                      /\ state'.scores = state.scores \o <<DefaultScore>>
             /\ MarkedLines(content, <<"WEAK_AREA", ":">>) = <<>>
                   => /\ "weak_areas" \notin DOMAIN update'
                      /\ state'.weak_areas = state.weak_areas]_vars

C20_Witness ==
    /\ pc = "give_feedback"
    /\ Len(state.scores) = 2
    /\ state.exchanges[2].feedback = GarbageReply
    /\ state.scores[2] = DefaultScore
    /\ ~HasScoreLine(state.exchanges[2].feedback)
    /\ ScoreNumber(state.exchanges[1].feedback) = <<"seven">>
    /\ state.scores[1] = DefaultScore
    /\ state.weak_areas = <<>>


\* the label on the last weak-area line of a reply, <<>> when it has none
WeakAreaLabel(content) ==
    LET lines == MarkedLines(content, <<"WEAK_AREA", ":">>)
    IN IF lines = <<>> THEN <<>>
       ELSE Strip(SplitOnceLast(lines[Len(lines)], ":"))

\* C21: analyze_answer adds one entry to weak_areas exactly when the parsed
\* score is below 7 and the parsed label is non-empty and is none of none,
\* n/a, - in any letter case; in every other case weak_areas is unchanged
C21_WeakAreaOnlyBelowLimit ==
    [][(pc = "analyze_answer" /\ pc' = "give_feedback") =>
          LET content == LastExchange(state').feedback
              label   == WeakAreaLabel(content)
          IN IF /\ LastExchange(state').score < WeakAreaScoreLimit
                /\ label # <<>>
                /\ Lower(label) \notin NoIssue
             THEN state'.weak_areas = state.weak_areas \o <<label>>
             ELSE state'.weak_areas = state.weak_areas]_vars

\* a reply has a line that, stripped, starts with a digit or a dash
HasUsableLine(content) ==
    \E i \in 1..Len(content) :
        LET line == Strip(content[i])
        IN IF line = <<>> THEN FALSE
           ELSE Head(line) \in Digits \/ Head(line) = "-"

\* C22: when the generation reply has no line starting with a digit or a
\* dash, questions is the fixed list of five fallback questions in its
\* order and the session goes on to ask_question
C22_FallbackQuestions ==
    [][(pc = "generate_questions" /\ pc' = "ask_question") =>
          \A content \in GenReplies :
             (~HasUsableLine(content) /\ GenerateQuestions(content))
                => /\ state'.questions = FallbackQuestions
                   /\ Len(state'.questions) = QuestionLimit]_vars

C22_Witness ==
    /\ pc = "ask_question"
    /\ loaded = None
    /\ "questions" \in DOMAIN update
    /\ state.questions = FallbackQuestions
    /\ state.current_index = 0


\* the fields of the state other than those in keys are the same in a and b
SameExcept(a, b, keys) ==
    /\ DOMAIN a = DOMAIN b
    /\ \A k \in DOMAIN a \ keys : a[k] = b[k]

\* C23: give_feedback sets current_index to its previous value plus 1; it
\* prompts for the continuation exactly when current_index + 1 is below
\* the number of questions, and user_wants_continue is then the user's
\* reply; otherwise user_wants_continue becomes false whatever would be
\* typed; no other field changes
C23_GiveFeedbackEffect ==
    [][(pc = "give_feedback" /\ pc' \in {"ask_question", "wrap_up"}) =>
          /\ state'.current_index = state.current_index + 1
          /\ PromptsForContinue(state)
                <=> (state.current_index + 1 < Len(state.questions))
          /\ IF state.current_index + 1 < Len(state.questions)
             THEN \E continue_input \in ContinueInputs :
                     /\ GiveFeedback(continue_input)
                     /\ state'.user_wants_continue
                           = (continue_input \in {<<"yes">>, <<"y">>, <<>>})
             ELSE \A continue_input \in ContinueInputs :
                     /\ GiveFeedback(continue_input)
                     /\ state'.user_wants_continue = FALSE
          /\ SameExcept(state, state', {"current_index", "user_wants_continue"})
          /\ DOMAIN update' = {"current_index", "user_wants_continue"}]_vars

C23_Witness ==
    /\ pc = "wrap_up"
    /\ DOMAIN update = {"current_index", "user_wants_continue"}
    /\ Len(state.questions) = 3
    /\ state.current_index = 3
    /\ ~state.user_wants_continue


\* the edges of the graph between nodes
Edges ==
    { <<"generate_questions", "ask_question">>,
      <<"ask_question", "analyze_answer">>,
      <<"analyze_answer", "give_feedback">>,
      <<"give_feedback", "ask_question">>,
      <<"give_feedback", "wrap_up">> }

\* generate_questions has already run in the session that is being resumed
GeneratedBefore ==
    IF inflight = None THEN FALSE ELSE inflight[1].state.questions # <<>>

\* C24: the nodes run only along generate_questions, ask_question,
\* analyze_answer, give_feedback, with the one branch after give_feedback;
\* a session starts at generate_questions, and generate_questions runs once
\* in a session, a resumed one included
C24_FixedOrderGenerateOnce ==
    [][/\ (pc \in NodeNames /\ pc' \in NodeNames) => <<pc, pc'>> \in Edges
       /\ (pc \in {"fresh_prompt", "resume_prompt"} /\ pc' \in NodeNames)
             => pc' = "generate_questions"
       /\ pc' = "generate_questions" => ~GeneratedBefore]_vars

\* C25: wrap_up sets session_complete and nothing else; after it no node
\* runs and the state stays as it is; session_complete is true only in
\* states that follow wrap_up
C25_WrapUpTerminal ==
    [][/\ (pc = "wrap_up" /\ pc' = "report")
             => /\ state'.session_complete = TRUE
                /\ SameExcept(state, state', {"session_complete"})
       /\ pc = "report"
             => /\ pc' \notin NodeNames
                /\ pc' \in InSession => state' = state
       /\ (IF pc' \in InSession THEN state'.session_complete ELSE FALSE)
             => IF pc = "wrap_up" THEN TRUE
                ELSE IF pc \in InSession THEN state.session_complete
                ELSE FALSE]_vars

C25_Witness ==
    /\ pc = "report"
    /\ state.session_complete
    /\ Len(state.scores) = 2
    /\ Len(state.questions) = 4

-----------------------------------------------------------------------------
(* A fresh session that is never interrupted, in which the language model
   always replies and the user continues at every prompt *)

ContinuingInputs == {<<"yes">>, <<"y">>, <<>>}

ContinueNext ==
    \/ Start
    \/ FreshStart
    \/ \E content \in GenReplies : GenerateQuestions(content)
    \/ \E answer \in AnswerInputs : AskQuestion(answer)
    \/ \E content \in AnalysisReplies : AnalyzeAnswer(content)
    \/ \E continue_input \in ContinuingInputs : GiveFeedback(continue_input)
    \/ WrapUp
    \/ Report

SpecContinue == Init /\ [][ContinueNext]_vars /\ WF_vars(ContinueNext)

\* C26: in a fresh uninterrupted session with N questions where the user
\* continues at every prompt, the session reaches its end, the final state
\* has N scores, N exchanges, current_index N and session_complete true,
\* and the router returns wrap_up exactly after the N-th give_feedback
C26_FullSessionCompletes ==
    /\ [](pc = "report" =>
            /\ Len(state.scores) = Len(state.questions)
            /\ Len(state.exchanges) = Len(state.questions)
            /\ state.current_index = Len(state.questions)
            /\ state.session_complete)
    /\ [][pc = "give_feedback" =>
            (pc' = "wrap_up" <=> state'.current_index = Len(state.questions))]_vars
    /\ <>(pc = "exited" /\ report # None)

C26_Witness ==
    /\ pc = "report"
    /\ Len(state.questions) = QuestionLimit
    /\ Len(state.scores) = QuestionLimit
    /\ state.current_index = QuestionLimit
    /\ state.session_complete

\* C27: an answer that is empty after trimming is recorded as the sentinel
\* in the exchange that ask_question appends, and the session goes on to
\* analyze_answer
C27_BlankAnswerSentinel ==
    [][(pc = "ask_question" /\ pc' = "analyze_answer") =>
          \A answer \in AnswerInputs :
             (Strip(answer) = <<>> /\ AskQuestion(answer))
                => /\ Len(state'.exchanges) = Len(state.exchanges) + 1
                   /\ LastExchange(state').answer = NoAnswer]_vars

C27_Witness ==
    /\ pc = "analyze_answer"
    /\ Len(state.exchanges) = 2
    /\ state.exchanges[1].answer # NoAnswer
    /\ state.exchanges[2].answer = NoAnswer

Immutable == {"company", "position", "difficulty"}

\* C28: company, position and difficulty never change once a session has
\* started, and questions never changes once generate_questions has run:
\* not by a later node, and not by the resume of the session
C28_ConfigurationAndQuestionsFixed ==
    [][/\ (pc \in InSession /\ pc' \in InSession)
             => \A k \in Immutable : state'[k] = state[k]
       /\ (NodeStep /\ pc # "generate_questions")
             => state'.questions = state.questions
       /\ ResumeStep => \A k \in Immutable : state'[k] = inflight[1].state[k]
       /\ (pc = "generate_questions" /\ pc' = "ask_question" /\ GeneratedBefore)
             => state'.questions = inflight[1].state.questions]_vars

-----------------------------------------------------------------------------
(* The start of main() on any checkpoint file that holds a session state *)

StartCheckpoints ==
    {None} \cup { Some(JsonDump([s EXCEPT !.session_complete = complete])) :
                     s \in PriorStates, complete \in BOOLEAN }

StartInit ==
    /\ pc = "start"
    /\ state = EmptyDict
    /\ loaded = None
    /\ initial_state = EmptyDict
    /\ checkpoint \in StartCheckpoints
    /\ update = EmptyDict
    /\ report = None
    /\ inflight = None

StartNext ==
    \/ Start
    \/ \E resume \in ResumeInputs : ResumePrompt(resume)
    \/ FreshStart

SpecStart == StartInit /\ [][StartNext]_vars

C30_AskQuestionEffect ==
    [][(pc = "ask_question" /\ pc' = "analyze_answer") =>
          /\ Len(state'.exchanges) = Len(state.exchanges) + 1
          /\ SubSeq(state'.exchanges, 1, Len(state.exchanges)) = state.exchanges
          /\ LastExchange(state').question_num = state.current_index + 1
          /\ LastExchange(state').question
                = state.questions[state.current_index + 1]
          /\ SameExcept(state, state', {"exchanges"})
          /\ DOMAIN update' = {"exchanges"}]_vars

C30_Witness ==
    /\ pc = "analyze_answer"
    /\ state.current_index = 2
    /\ Len(state.exchanges) = 3
    /\ state.exchanges[3].question_num = 3
    /\ state.exchanges[3].question = state.questions[3]
    /\ Len(state.scores) = 2


\* every score of the list is the score of the exchange at its position
ScoresOnExchanges(s) ==
    \A i \in 1..Len(s.scores) :
        IF i <= Len(s.exchanges)
        THEN IF "score" \in DOMAIN s.exchanges[i]
             THEN s.exchanges[i].score = s.scores[i] ELSE FALSE
        ELSE FALSE

\* C31: after analyze_answer the last exchange carries a score and the raw
\* reply, and that score is the last element of scores; in every state of
\* a session exchanges[i].score = scores[i] for every position of scores;
\* an exchange that carries a score is not modified by any later node
C31_ScoredExchangesStable ==
    /\ [](pc \in InSession => ScoresOnExchanges(state))
    /\ [][/\ (pc = "analyze_answer" /\ pc' = "give_feedback")
                => /\ DOMAIN LastExchange(state')
                         = DOMAIN LastExchange(state) \cup {"score", "feedback"}
                   /\ LastExchange(state').score
                         = state'.scores[Len(state'.scores)]
                   /\ \E content \in AnalysisReplies :
                         /\ AnalyzeAnswer(content)
                         /\ LastExchange(state').feedback = content
          /\ NodeStep
                => \A i \in 1..Len(state.exchanges) :
                      "score" \in DOMAIN state.exchanges[i]
                         => IF i <= Len(state'.exchanges)
                            THEN state'.exchanges[i] = state.exchanges[i]
                            ELSE FALSE]_vars

C31_Witness ==
    /\ pc = "give_feedback"
    /\ Len(state.exchanges) = 3
    /\ state.scores = <<4, MaxScore, DefaultScore>>
    /\ state.exchanges[1].score = 4
    /\ state.exchanges[2].score = MaxScore
    /\ state.exchanges[3].feedback = GarbageReply


-----------------------------------------------------------------------------
(* A fresh session that is never interrupted and whose console inputs and
   language-model calls all return, whatever they return *)

SessionNext ==
    \/ Start
    \/ FreshStart
    \/ \E content \in GenReplies : GenerateQuestions(content)
    \/ \E answer \in AnswerInputs : AskQuestion(answer)
    \/ \E content \in AnalysisReplies : AnalyzeAnswer(content)
    \/ \E continue_input \in ContinueInputs : GiveFeedback(continue_input)
    \/ WrapUp
    \/ Report

SpecSession == Init /\ [][SessionNext]_vars /\ WF_vars(SessionNext)

\* C32: a session whose inputs and calls return reaches wrap_up and then
\* halts, whatever the user answers at the continuation prompts;
\* ask_question runs at most len(questions) <= 5 times (each run appends
\* one exchange) and never asks a question number it has asked before
C32_SessionTerminates ==
    /\ (pc = "generate_questions") ~> (pc = "wrap_up")
    /\ (pc = "wrap_up") ~> (pc = "exited")
    /\ [](pc \in InSession =>
            /\ Len(state.exchanges) <= Len(state.questions)
            /\ Len(state.questions) <= QuestionLimit)
    /\ [][(pc = "ask_question" /\ pc' = "analyze_answer") =>
            \A i \in 1..Len(state.exchanges) :
               state.exchanges[i].question_num
                  # LastExchange(state').question_num]_vars

C32_Witness ==
    /\ pc = "wrap_up"
    /\ state.user_wants_continue = FALSE
    /\ Len(state.questions) = QuestionLimit
    /\ Len(state.exchanges) = 2
    /\ state.exchanges[2].question_num = 2

\* C33: whenever ask_question is about to run, current_index is below the
\* number of questions, in a fresh session, in a session started from a
\* checkpoint, and when fewer than 5 questions were generated
C33_AskWithinQuestions ==
    pc = "ask_question" =>
       /\ state.current_index \in 0..(Len(state.questions) - 1)
       /\ state.questions[state.current_index + 1] \in Seq(STRING)

C33_Witness ==
    /\ pc = "ask_question"
    /\ loaded # None
    /\ Len(state.questions) = 2
    /\ state.current_index = 1

\* C34: whenever wrap_up is about to run, and whenever the report is
\* written, scores is not empty, so sum(scores)/len(scores) in the report
\* does not divide by zero and the report is produced
C34_ScoresNonEmptyAtEnd ==
    /\ pc \in {"wrap_up", "report"} => Len(state.scores) >= 1
    /\ report # None => report[1].questions_completed >= 1

C34_Witness ==
    /\ pc = "exited"
    /\ report # None
    /\ report[1].questions_completed = 1

====
